---------------------------- MODULE Spec2Model ----------------------------
(***************************************************************************)
(* Model of the two packet hooks of zeptor:                                *)
(*   src/bpf/xdp_router.c  xdp_router_prog  (receive hook, route table)    *)
(*   src/bpf/tc_cache.c    tc_http_cache    (transmit hook, HTTP cache)    *)
(*                                                                         *)
(* A packet buffer is a sequence of bytes `mem` together with `data_end`,  *)
(* the number of bytes the hook may touch; bytes of mem at offsets         *)
(* >= data_end are memory that lies behind the buffer.  64-bit and 32-bit  *)
(* machine words are sequences of bytes, least significant byte first, so  *)
(* that unsigned arithmetic keeps its width.                               *)
(***************************************************************************)
EXTENDS Integers, Naturals, Sequences, FiniteSets, TLC

VARIABLES endian, route_map, http_cache, xstats, tstats, last, pc, tmp, cur, incs

vars == <<endian, route_map, http_cache, xstats, tstats, last, pc, tmp, cur, incs>>

---------------------------------------------------------------------------
(* Bytes and machine words *)

Max(a, b) == IF a > b THEN a ELSE b

Min(a, b) == IF a < b THEN a ELSE b

\* The element of a set of one element
Only(S) == CHOOSE x \in S : TRUE

\* The byte at offset off (from 0) of the memory the buffer lives in.
Byte(mem, off) == IF off >= 0 /\ off < Len(mem) THEN mem[off + 1] ELSE 0

RECURSIVE XorBits(_, _, _)
XorBits(a, b, n) ==
    IF n = 0 THEN 0
    ELSE ((a + b) % 2) + 2 * XorBits(a \div 2, b \div 2, n - 1)

\* a ^ b on 8-bit values
XorByte(a, b) == XorBits(a, b, 8)

RECURSIVE ColSum(_, _, _, _)
ColSum(a, b, k, i) ==
    IF i > k THEN 0 ELSE a[i] * b[k + 1 - i] + ColSum(a, b, k, i + 1)

RECURSIVE MulCols(_, _, _, _)
MulCols(a, b, k, carry) ==
    IF k > 8 THEN <<>>
    ELSE LET s == ColSum(a, b, k, 1) + carry
         IN  <<s % 256>> \o MulCols(a, b, k + 1, s \div 256)

\* a * b on __u64 (mod 2^64)
Mul64(a, b) == MulCols(a, b, 1, 0)

RECURSIVE SubCols(_, _, _, _)
SubCols(a, b, k, borrow) ==
    IF k > 8 THEN <<>>
    ELSE LET d == a[k] - b[k] - borrow
         IN  <<d % 256>> \o SubCols(a, b, k + 1, IF d < 0 THEN 1 ELSE 0)

\* a - b on __u64 (mod 2^64)
Sub64(a, b) == SubCols(a, b, 1, 0)

RECURSIVE LtFrom(_, _, _)
LtFrom(a, b, k) ==
    IF k = 0 THEN FALSE
    ELSE IF a[k] # b[k] THEN a[k] < b[k]
    ELSE LtFrom(a, b, k - 1)

\* a < b on __u64 (unsigned)
Lt64(a, b) == LtFrom(a, b, 8)

\* A native 16-bit load: the build's byte order decides the value.
Load16(mem, off, e) ==
    IF e = "little" THEN Byte(mem, off) + 256 * Byte(mem, off + 1)
    ELSE 256 * Byte(mem, off) + Byte(mem, off + 1)

\* A native 32-bit load, as a word (least significant byte first).
Load32(mem, off, e) ==
    IF e = "little"
    THEN <<Byte(mem, off), Byte(mem, off + 1), Byte(mem, off + 2), Byte(mem, off + 3)>>
    ELSE <<Byte(mem, off + 3), Byte(mem, off + 2), Byte(mem, off + 1), Byte(mem, off)>>

\* bpf_htons / bpf_ntohs: a byte swap on a little-endian build, the identity otherwise
bpf_htons(x, e) == IF e = "little" THEN (x % 256) * 256 + (x \div 256) ELSE x

bpf_ntohs(x, e) == bpf_htons(x, e)

---------------------------------------------------------------------------
(* Program constants *)

ETH_P_IP == 2048

IPPROTO_TCP == 6

ETH_HLEN == 14

IPHDR_SIZE == 20

TCPHDR_SIZE == 20

\* 0x47455420 and 0x504f5354 as 32-bit words
HTTP_GET == <<32, 84, 69, 71>>

HTTP_POST == <<84, 83, 79, 80>>

MAX_URL_LEN == 192

FNV_MAX_LEN == 256

\* 60000000000ULL
CACHE_TTL_NS == <<0, 88, 71, 248, 13, 0, 0, 0>>

\* 0xcbf29ce484222325ULL
FNV_OFFSET == <<37, 35, 34, 132, 228, 156, 242, 203>>

\* 0x100000001b3ULL
FNV_PRIME == <<179, 1, 0, 0, 0, 1, 0, 0>>

XDP_DROP == "XDP_DROP"

XDP_PASS == "XDP_PASS"

XDP_TX == "XDP_TX"

TC_ACT_OK == "TC_ACT_OK"

ROUTE_PREFIX_LEN == 48

---------------------------------------------------------------------------
(* Header fields, read from the buffer's bytes *)

eth_h_proto(mem, e) == Load16(mem, 12, e)

ip_version(mem, ip) == Byte(mem, ip) \div 16

ip_ihl(mem, ip) == Byte(mem, ip) % 16

ip_protocol(mem, ip) == Byte(mem, ip + 9)

\* ip->daddr, the four bytes as they lie in memory
ip_daddr(mem, ip) == <<Byte(mem, ip + 16), Byte(mem, ip + 17), Byte(mem, ip + 18), Byte(mem, ip + 19)>>

tcp_dest(mem, tcp, e) == Load16(mem, tcp + 2, e)

\* tcp->dest, the two bytes as they lie in memory
tcp_dest_raw(mem, tcp) == <<Byte(mem, tcp + 2), Byte(mem, tcp + 3)>>

tcp_doff(mem, tcp) == Byte(mem, tcp + 12) \div 16

---------------------------------------------------------------------------
(* The route table: an LPM trie keyed by (prefix_len, 8 bytes of data) *)

NoRoute == [found |-> FALSE, prefix_len |-> 0, action |-> 0]

RECURSIVE Pow2(_)
Pow2(n) == IF n = 0 THEN 1 ELSE 2 * Pow2(n - 1)

\* The first n bits of the byte strings a and b are the same.
PrefixEq(a, b, n) ==
    /\ \A i \in 1..(n \div 8) : a[i] = b[i]
    /\ (n % 8 # 0) =>
          LET k == (n \div 8) + 1
              d == Pow2(8 - (n % 8))
          IN  a[k] \div d = b[k] \div d

\* struct route_key as the hook fills it: prefix_len 48, then daddr, dest
\* port and protocol as they lie in the packet.  The initializer names these
\* four members only; the byte of padding behind protocol is not written and
\* holds pad, whatever the stack held there.
route_key(mem, ip, tcp, pad) ==
    [prefix_len |-> ROUTE_PREFIX_LEN,
     data |-> ip_daddr(mem, ip) \o tcp_dest_raw(mem, tcp) \o <<ip_protocol(mem, ip), pad>>]

\* The values of that byte: the stack slot is read without having been
\* written, so it holds any byte an earlier use of the stack left there.
PadBytes == 0..255

\* Faulty variant: a lookup that compares prefix lengths and no bits
lpm_matches_no_bits(routes, key) ==
    {k \in DOMAIN routes : k.prefix_len <= key.prefix_len}

\* The stored entries a trie lookup of key can return: those no longer than
\* the key's prefix whose bits the key's data starts with.
lpm_matches(routes, key) ==
    {k \in DOMAIN routes :
        k.prefix_len <= key.prefix_len /\ PrefixEq(k.data, key.data, k.prefix_len)}

\* bpf_map_lookup_elem(&route_map, &key): the longest matching entry
lpm_lookup(routes, key) ==
    LET m == lpm_matches(routes, key)
    IN  IF m = {} THEN NoRoute
        ELSE LET k == CHOOSE k \in m : \A j \in m : j.prefix_len <= k.prefix_len
             IN  [found |-> TRUE, prefix_len |-> k.prefix_len, action |-> routes[k].action]

---------------------------------------------------------------------------
(* src/bpf/xdp_router.c *)

\* rc < 0: the header does not fit; reads: the offsets the step read
parse_eth(data_end) ==
    IF ETH_HLEN > data_end THEN [rc |-> -1, reads |-> {}]
    ELSE [rc |-> 0, reads |-> {}]

parse_ip(mem, data_end, ip) ==
    IF ip + IPHDR_SIZE > data_end THEN [rc |-> -1, reads |-> {}]
    ELSE IF ip_version(mem, ip) # 4 THEN [rc |-> -1, reads |-> {ip}]
    ELSE [rc |-> 0, reads |-> {ip}]

\* tcp: the offset of the TCP header, ip + ihl * 4 (the caller read ihl)
parse_tcp(mem, data_end, tcp) ==
    IF tcp + TCPHDR_SIZE > data_end THEN [rc |-> -1, reads |-> {}]
    ELSE [rc |-> 0, reads |-> {}]

\* Faulty variant: case 1 counts the dropped packet as passed
dispatch_drop_as_passed(action) ==
    CASE action = 1 -> [verdict |-> XDP_DROP, passed |-> 1, dropped |-> 0]
      [] action = 2 -> [verdict |-> XDP_TX, passed |-> 1, dropped |-> 0]
      [] OTHER      -> [verdict |-> XDP_PASS, passed |-> 1, dropped |-> 0]

\* switch (route->action): the counter incremented and the verdict
dispatch(action) ==
    CASE action = 1 -> [verdict |-> XDP_DROP, passed |-> 0, dropped |-> 1]
      [] action = 2 -> [verdict |-> XDP_TX, passed |-> 1, dropped |-> 0]
      [] OTHER      -> [verdict |-> XDP_PASS, passed |-> 1, dropped |-> 0]

\* Faulty variant: packets_total++ placed behind the header walk
XdpBypass_uncounted(reads) ==
    [verdict |-> XDP_PASS, reads |-> reads, looked |-> FALSE, route |-> NoRoute,
     total |-> 0, passed |-> 0, dropped |-> 0]

\* Every return XDP_PASS before the lookup: packets_total was incremented,
\* nothing else.
XdpBypass(reads) ==
    [verdict |-> XDP_PASS, reads |-> reads, looked |-> FALSE, route |-> NoRoute,
     total |-> 1, passed |-> 0, dropped |-> 0]

\* The header walk of the receive hook, up to the TCP header: ok when all
\* three headers were parsed, with the offset of the TCP header and the
\* offsets read so far; else out, the result of the return XDP_PASS taken.
xdp_walk(mem, data_end, e) ==
    LET eth == parse_eth(data_end)
        ip == ETH_HLEN
        r1 == {12, 13}
        stop(reads) == [ok |-> FALSE, out |-> XdpBypass(reads), tcp |-> 0, reads |-> reads]
    IN
    IF eth.rc < 0 THEN stop({})
    ELSE IF eth_h_proto(mem, e) # bpf_htons(ETH_P_IP, e) THEN stop(r1)
    ELSE LET pip == parse_ip(mem, data_end, ip)
             r2 == r1 \cup pip.reads
         IN
         IF pip.rc < 0 THEN stop(r2)
         ELSE IF ip_protocol(mem, ip) # IPPROTO_TCP THEN stop(r2 \cup {ip + 9})
         ELSE LET tcp == ip + ip_ihl(mem, ip) * 4
                  ptcp == parse_tcp(mem, data_end, tcp)
                  r3 == r2 \cup {ip + 9} \cup ptcp.reads
              IN
              IF ptcp.rc < 0 THEN stop(r3)
              ELSE [ok |-> TRUE, out |-> XdpBypass(r3), tcp |-> tcp, reads |-> r3]

\* The offsets of the packet the key is built from: daddr and dest
xdp_key_reads(tcp) == (ETH_HLEN + 16)..(ETH_HLEN + 19) \cup {tcp + 2, tcp + 3}

\* The rest of the receive hook, for a packet whose TCP header lies at tcp:
\* the key, the lookup and the dispatch.  reads: the offsets the invocation
\* reads, those of the key's fields included.
xdp_route(mem, tcp, reads, routes, pad) ==
    LET route == lpm_lookup(routes, route_key(mem, ETH_HLEN, tcp, pad))
        d == dispatch(route.action)
    IN
    IF route.found
    THEN [verdict |-> d.verdict, reads |-> reads, looked |-> TRUE,
          route |-> route, total |-> 1, passed |-> d.passed, dropped |-> d.dropped]
    ELSE [verdict |-> XDP_PASS, reads |-> reads, looked |-> TRUE,
          route |-> route, total |-> 1, passed |-> 1, dropped |-> 0]

\* One invocation of the receive hook: the verdict, the offsets read, whether
\* the route table was looked up and what it returned, and the increments
\* of the executing unit's counters.  pad: the byte the stack held where the
\* key's padding lies.
xdp_router_prog(mem, data_end, routes, e, pad) ==
    LET w == xdp_walk(mem, data_end, e)
    IN  IF w.ok
        THEN xdp_route(mem, w.tcp, w.reads \cup xdp_key_reads(w.tcp), routes, pad)
        ELSE w.out

\* The results the invocation can have, over the bytes the stack may hold:
\* xdp_router_prog(mem, data_end, routes, e, pad) for every pad of PadBytes
\* (the walk does not depend on pad and is evaluated once).
xdp_outcomes(mem, data_end, routes, e) ==
    LET w == xdp_walk(mem, data_end, e)
    IN  IF w.ok
        THEN LET r4 == w.reads \cup xdp_key_reads(w.tcp)
             IN  {xdp_route(mem, w.tcp, r4, routes, pad) : pad \in PadBytes}
        ELSE {w.out}

---------------------------------------------------------------------------
(* src/bpf/tc_cache.c *)

\* One iteration of the loop: hash ^= bytes[i]; hash *= FNV_PRIME
fnv1a_step(hash, byte) == Mul64([hash EXCEPT ![1] = XorByte(@, byte)], FNV_PRIME)

\* Iterations lo .. hi-1 of the loop, from the hash value before iteration
\* lo.  The iterations run in order: the first half yields the value h the
\* second half starts from (the range is split in halves only to keep the
\* evaluation shallow, which changes no value).
RECURSIVE fnv1a_fold(_, _, _, _, _)
fnv1a_fold(mem, data, lo, hi, hash) ==
    IF hi <= lo THEN hash
    ELSE IF hi = lo + 1 THEN fnv1a_step(hash, Byte(mem, data + lo))
    ELSE LET mid == (lo + hi) \div 2
         IN  Only({fnv1a_fold(mem, data, mid, hi, h) :
                      h \in {fnv1a_fold(mem, data, lo, mid, hash)}})

\* fnv1a_hash(data, len) over the bytes of mem at offset data:
\* for (i = 0; i < 256 && i < len; i++)
fnv1a_hash(mem, data, len) ==
    fnv1a_fold(mem, data, 0, Min(len, FNV_MAX_LEN), FNV_OFFSET)

\* The offsets fnv1a_hash(data, len) reads.
fnv1a_reads(data, len) == {data + i : i \in 0..(Min(len, FNV_MAX_LEN) - 1)}

\* Faulty variant: the method token is read without the check against data_end
parse_http_start_unchecked(mem, data_end, start, e) ==
    [rc |-> 0, reads |-> start..(start + 3), method |-> Load32(mem, start, e)]

\* start: the payload offset, tcp + doff * 4 (the caller read doff)
parse_http_start(mem, data_end, start, e) ==
    IF start + 4 > data_end THEN [rc |-> -1, reads |-> {}, method |-> <<0, 0, 0, 0>>]
    ELSE [rc |-> 0, reads |-> start..(start + 3), method |-> Load32(mem, start, e)]

\* method_raw -> 1 (GET), 2 (POST), 0 (anything else)
classify(method_raw) ==
    IF method_raw = HTTP_GET THEN 1
    ELSE IF method_raw = HTTP_POST THEN 2
    ELSE 0

IsDelim(c) == c = 32 \/ c = 13 \/ c = 10

\* The URL scan: the loop leaves at the first iteration i that is the
\* iteration limit, or lies at or behind data_end, or holds a delimiter (it
\* reads that byte, and every byte before it); url_len is that i.
url_stops(mem, data_end, url_start) ==
    {i \in 0..MAX_URL_LEN :
        \/ ~(i < MAX_URL_LEN)
        \/ url_start + i >= data_end
        \/ IsDelim(Byte(mem, url_start + i))}

url_scan(mem, data_end, url_start) ==
    LET stops == url_stops(mem, data_end, url_start)
        n == CHOOSE i \in stops : \A j \in stops : i <= j
        last_read == IF n < MAX_URL_LEN /\ url_start + n < data_end THEN n ELSE n - 1
    IN  [len |-> n, reads |-> {url_start + i : i \in 0..last_read}]

\* Faulty variant: no port check
port_allowed_any(dport) == TRUE

\* if (dport != 80 && dport != 8080 && dport != 3000) return TC_ACT_OK;
port_allowed(dport) == ~(dport # 80 /\ dport # 8080 /\ dport # 3000)

\* now - cached->timestamp < CACHE_TTL_NS
is_fresh(now, timestamp) == Lt64(Sub64(now, timestamp), CACHE_TTL_NS)

NoKey == [hash |-> <<0, 0, 0, 0, 0, 0, 0, 0>>, method |-> 0, port |-> 0, padding |-> 0]

\* Every return TC_ACT_OK before the lookup: the total was incremented,
\* nothing else.
TcBypass(reads) ==
    [verdict |-> TC_ACT_OK, reads |-> reads, looked |-> FALSE, cached |-> FALSE,
     method |-> 0, url_start |-> 0, url_len |-> 0, key |-> NoKey, total |-> 1, hits |-> 0]

\* One invocation of the transmit hook: the verdict, the offsets read, the
\* method it classified, the URL it extracted (offset and length), whether
\* the cache was looked up (and with which key, and whether it held the
\* key), and the increments of the executing unit's counters.
tc_http_cache(mem, data_end, cache, now, e) ==
    LET ip == ETH_HLEN
        r1 == {12, 13}
    IN
    IF ETH_HLEN > data_end THEN TcBypass({})
    ELSE IF eth_h_proto(mem, e) # bpf_htons(ETH_P_IP, e) THEN TcBypass(r1)
    ELSE IF ip + IPHDR_SIZE > data_end THEN TcBypass(r1)
    ELSE IF ip_protocol(mem, ip) # IPPROTO_TCP THEN TcBypass(r1 \cup {ip + 9})
    ELSE LET tcp == ip + ip_ihl(mem, ip) * 4
             r2 == r1 \cup {ip + 9, ip}
         IN
         IF tcp + TCPHDR_SIZE > data_end THEN TcBypass(r2)
         ELSE LET dport == bpf_ntohs(tcp_dest(mem, tcp, e), e)
                  r3 == r2 \cup {tcp + 2, tcp + 3}
              IN
              IF ~port_allowed(dport) THEN TcBypass(r3)
              ELSE LET start == tcp + tcp_doff(mem, tcp) * 4
                       http == parse_http_start(mem, data_end, start, e)
                       r4 == r3 \cup {tcp + 12} \cup http.reads
                       method == classify(http.method)
                   IN
                   IF http.rc < 0 THEN TcBypass(r4)
                   ELSE IF method # 1 THEN [TcBypass(r4) EXCEPT !.method = method]
                   ELSE LET url_start == start + 4
                            scan == url_scan(mem, data_end, url_start)
                            url_len == scan.len
                            r5 == r4 \cup scan.reads
                        IN
                        IF url_len = 0
                        THEN [TcBypass(r5) EXCEPT !.method = method, !.url_start = url_start]
                        ELSE LET key == [hash |-> fnv1a_hash(mem, url_start, url_len),
                                         method |-> method, port |-> dport, padding |-> 0]
                                 r6 == r5 \cup fnv1a_reads(url_start, url_len)
                                 cached == key \in DOMAIN cache
                                 hit == cached /\ is_fresh(now, cache[key].timestamp)
                             IN  [verdict |-> TC_ACT_OK, reads |-> r6, looked |-> TRUE,
                                  cached |-> cached, method |-> method,
                                  url_start |-> url_start, url_len |-> url_len,
                                  key |-> key, total |-> 1,
                                  hits |-> IF hit THEN 1 ELSE 0]

---------------------------------------------------------------------------
(* Packets: the frames the hooks are run on *)

\* The byte at offset o of the frame with the fields f: the Ethernet type at
\* 12, the IP header at 14 (version and IHL, protocol, destination address),
\* the TCP header at 14 + ihl * 4 (destination port, data offset), the payload
\* at the TCP header + doff * 4.  Where headers overlap (ihl < 5, doff < 5)
\* the field named first below is the one stored.
FrameByte(f, o) ==
    LET ip == ETH_HLEN
        tcp == ip + f.ihl * 4
        pay == tcp + f.doff * 4
    IN  CASE o = 12 -> f.ethertype \div 256
          [] o = 13 -> f.ethertype % 256
          [] o = ip -> f.version * 16 + f.ihl
          [] o = ip + 9 -> f.protocol
          [] o = tcp + 2 -> f.dport \div 256
          [] o = tcp + 3 -> f.dport % 256
          [] o = tcp + 12 -> f.doff * 16
          [] o >= ip + 16 /\ o <= ip + 19 -> f.daddr[o - ip - 15]
          [] o >= pay /\ o < pay + Len(f.payload) -> f.payload[o - pay + 1]
          [] OTHER -> 0

FrameLen(f) ==
    LET tcp == ETH_HLEN + f.ihl * 4
    IN  Max(ETH_HLEN + IPHDR_SIZE,
            Max(tcp + TCPHDR_SIZE, tcp + f.doff * 4 + Len(f.payload)))

\* (the concatenation makes the frame a sequence of FrameLen(f) bytes)
Frame(f) == [i \in 1..FrameLen(f) |-> FrameByte(f, i - 1)] \o <<>>

\* A packet: the memory it lies in and the number of bytes of the buffer.
Pkt(f, n) == [mem |-> Frame(f), data_end |-> n]

Whole(f) == Pkt(f, FrameLen(f))

\* Destination addresses 10.0.0.1, 10.0.0.2, 10.0.0.4
AddrOne == <<10, 0, 0, 1>>

AddrTwo == <<10, 0, 0, 2>>

AddrFour == <<10, 0, 0, 4>>

\* The method tokens "GET ", "POST", "PUT " as they lie on the wire, and the
\* byte strings a little-endian 32-bit load reads as 0x47455420, 0x504f5354.
TokGet == <<71, 69, 84, 32>>

TokPost == <<80, 79, 83, 84>>

TokPut == <<80, 85, 84, 32>>

TokGetSwapped == <<32, 84, 69, 71>>

TokPostSwapped == <<84, 83, 79, 80>>

\* What follows the token: "/a HTTP/1.1\r\n", "/a/b HTTP/1.1\r\n", "/b HTTP",
\* " HTTP" (an empty URL), "" and "/a" (the buffer ends), "/a\r\n", "/a\nx"
TailA == <<47, 97, 32, 72, 84, 84, 80, 47, 49, 46, 49, 13, 10>>

TailAB == <<47, 97, 47, 98, 32, 72, 84, 84, 80, 47, 49, 46, 49, 13, 10>>

TailB == <<47, 98, 32, 72, 84, 84, 80>>

TailEmptyUrl == <<32, 72, 84, 84, 80>>

TailNone == <<>>

TailAEnd == <<47, 97>>

TailACr == <<47, 97, 13, 10>>

TailALf == <<47, 97, 10, 120>>

\* A URL of LongUrlLen bytes 'x' with no delimiter, longer than MAX_URL_LEN
LongUrlLen == MAX_URL_LEN + 8

TailLong == [i \in 1..LongUrlLen |-> 120]

\* The plain frame: IPv4, TCP, no IP or TCP options, 10.0.0.1:80
PlainFields ==
    [ethertype |-> ETH_P_IP, version |-> 4, ihl |-> 5, protocol |-> IPPROTO_TCP,
     daddr |-> AddrOne, dport |-> 80, doff |-> 5, payload |-> TokGet \o TailA]

\* Frames that differ from the plain one in the headers: another Ethernet
\* type (IPv6, ARP), IP version, protocol (UDP, ICMP), IHL, address or port.
HeaderVariants ==
    {PlainFields}
    \cup {[PlainFields EXCEPT !.ethertype = t] : t \in {34525, 2054}}
    \cup {[PlainFields EXCEPT !.version = v] : v \in {6, 0}}
    \cup {[PlainFields EXCEPT !.protocol = q] : q \in {17, 1}}
    \cup {[PlainFields EXCEPT !.ihl = h] : h \in {0, 4, 6, 15}}
    \cup {[PlainFields EXCEPT !.daddr = a, !.dport = d] :
              a \in {AddrOne, AddrTwo, AddrFour}, d \in {80, 81, 8080}}

\* The buffer lengths at which a header of f just fits or just does not.
CutPoints(f) ==
    LET tcp == ETH_HLEN + f.ihl * 4
    IN  {0, ETH_HLEN - 1, ETH_HLEN, ETH_HLEN + IPHDR_SIZE - 1, ETH_HLEN + IPHDR_SIZE,
         tcp + TCPHDR_SIZE - 1, tcp + TCPHDR_SIZE,
         tcp + f.doff * 4 + 3, tcp + f.doff * 4 + 4, tcp + f.doff * 4 + 5}

Truncations(f) == {Pkt(f, n) : n \in {c \in CutPoints(f) : c <= FrameLen(f)}}

\* The packets the receive hook is run on.
XdpPkts ==
    {Whole(f) : f \in HeaderVariants}
    \cup Truncations(PlainFields)
    \cup Truncations([PlainFields EXCEPT !.ihl = 6])

Tokens == {TokGet, TokGetSwapped, TokPost, TokPostSwapped, TokPut}

GetTokens == {TokGet, TokGetSwapped}

Tails == {TailA, TailAB, TailB, TailEmptyUrl, TailNone, TailAEnd, TailACr, TailALf}

Payloads ==
    {t \o TailA : t \in Tokens} \cup {t \o l : t \in GetTokens, l \in Tails}

\* The packets the transmit hook is run on: every payload on 10.0.0.1:80,
\* GET /a on other ports and with other headers, and truncated buffers.
TcPkts ==
    {Whole([PlainFields EXCEPT !.payload = y]) : y \in Payloads}
    \cup {Whole([PlainFields EXCEPT !.payload = t \o TailA, !.dport = d]) :
              t \in GetTokens, d \in {8080, 3000, 443, 20480}}
    \cup {Whole([PlainFields EXCEPT !.payload = t \o TailA, !.version = 6]) : t \in GetTokens}
    \cup {Whole([PlainFields EXCEPT !.payload = t \o TailA, !.ihl = 6, !.doff = 8]) : t \in GetTokens}
    \cup {Whole([PlainFields EXCEPT !.ethertype = 34525]), Whole([PlainFields EXCEPT !.protocol = 17])}
    \cup Truncations(PlainFields)

\* The packets both hooks are run on in the specification of the two hooks
\* together.
BothPkts ==
    {Whole([PlainFields EXCEPT !.payload = t \o TailA]) : t \in GetTokens}
    \cup {Whole([PlainFields EXCEPT !.payload = t \o TailA, !.version = 6]) : t \in GetTokens}
    \cup {Whole([PlainFields EXCEPT !.payload = t \o TailA, !.dport = 443]) : t \in GetTokens}
    \cup {Whole([PlainFields EXCEPT !.ethertype = 34525]), Whole([PlainFields EXCEPT !.protocol = 17])}
    \cup Truncations(PlainFields)

\* Every buffer length of the memory m, from the empty buffer to all of m
Cuts(m) == {[mem |-> m, data_end |-> n] : n \in 0..Len(m)}

\* Frames with every IHL and every TCP data offset a 4-bit field can hold,
\* and GET requests with a URL longer than the scan.
GeometryFrames(tokens) ==
    {Frame([PlainFields EXCEPT !.ihl = h, !.doff = d, !.payload = t \o TailACr]) :
         h \in 0..15, d \in 0..15, t \in tokens}
    \cup {Frame([PlainFields EXCEPT !.payload = t \o TailLong]) : t \in tokens}

\* The packets of the bounds check: every buffer length of every such frame
GeometryPkts(tokens) == UNION {Cuts(m) : m \in GeometryFrames(tokens)}

---------------------------------------------------------------------------
(* State *)

\* Execution units (CPUs) and the number of hook invocations explored
NCPU == 2

MaxInv == 2

CPUs == 1..NCPU

Zero64 == <<0, 0, 0, 0, 0, 0, 0, 0>>

\* struct stats_value of xdp_router.c, one per unit
ZeroStats == [packets_total |-> 0, packets_passed |-> 0, packets_dropped |-> 0, cache_hits |-> 0]

\* The four __u64 slots of the stats array of tc_cache.c, one array per unit
ZeroSlots == [k \in 0..3 |-> 0]

EmptyMap == [k \in {} |-> 0]

\* Faulty variant: BPF_MAP_TYPE_ARRAY: every unit's lookup returns the one copy
shared_copy(u) == 1

\* BPF_MAP_TYPE_PERCPU_ARRAY: a lookup on unit u returns unit u's own copy.
this_cpu(u) == u

\* No invocation is in progress: the last verdict has gone back to the host.
NoInv == [hook |-> "none"]

Idle == last.hook = "none"

Snapshot == [xstats |-> xstats, tstats |-> tstats, route_map |-> route_map, http_cache |-> http_cache]

RECURSIVE SumOver(_, _)
SumOver(f, S) ==
    IF S = {} THEN 0
    ELSE LET x == CHOOSE x \in S : TRUE IN f[x] + SumOver(f, S \ {x})

\* What has run on one unit so far: the invocations of each hook that
\* started (xinv, tinv) and the increments of each counter that were executed.
ZeroIncs ==
    [xinv |-> 0, tinv |-> 0, xtotal |-> 0, xpassed |-> 0, xdropped |-> 0, ttotal |-> 0, thits |-> 0]

\* The invocations started so far, on all units
Invocations == SumOver([u \in CPUs |-> incs[u].xinv + incs[u].tinv], CPUs)

\* The byte order the programs were built for.
Endians == {"little", "big"}

Init ==
    /\ endian \in Endians
    /\ route_map = EmptyMap
    /\ http_cache = EmptyMap
    /\ xstats = [u \in CPUs |-> ZeroStats]
    /\ tstats = [u \in CPUs |-> ZeroSlots]
    /\ last = NoInv
    /\ pc = [u \in CPUs |-> "idle"]
    /\ tmp = [u \in CPUs |-> 0]
    /\ cur = [u \in CPUs |-> NoInv]
    /\ incs = [u \in CPUs |-> ZeroIncs]

---------------------------------------------------------------------------
(* The hooks, one invocation per step *)

\* The receive hook runs on unit u for packet p, with any byte on the stack
\* under the key's padding.
XdpInvoke(u, p) ==
    /\ Idle
    /\ Invocations < MaxInv
    /\ \E out \in xdp_outcomes(p.mem, p.data_end, route_map, endian) :
       LET s == this_cpu(u)
       IN  /\ xstats' = [xstats EXCEPT
                  ![s].packets_total = @ + out.total,
                  ![s].packets_passed = @ + out.passed,
                  ![s].packets_dropped = @ + out.dropped]
           /\ last' = [hook |-> "xdp", cpu |-> u, mem |-> p.mem, data_end |-> p.data_end,
                       now |-> Zero64, out |-> out, pre |-> Snapshot]
    /\ incs' = [incs EXCEPT ![u].xinv = @ + 1]
    /\ UNCHANGED <<endian, route_map, http_cache, tstats, pc, tmp, cur>>

\* The transmit hook runs on unit u for packet p; bpf_ktime_get_ns() would
\* return now.
TcInvoke(u, p, now) ==
    /\ Idle
    /\ Invocations < MaxInv
    /\ LET out == tc_http_cache(p.mem, p.data_end, http_cache, now, endian)
           s == this_cpu(u)
       IN  /\ tstats' = [tstats EXCEPT
                  ![s][0] = @ + out.total,
                  ![s][1] = @ + out.hits]
           /\ last' = [hook |-> "tc", cpu |-> u, mem |-> p.mem, data_end |-> p.data_end,
                       now |-> now, out |-> out, pre |-> Snapshot]
    /\ incs' = [incs EXCEPT ![u].tinv = @ + 1]
    /\ UNCHANGED <<endian, route_map, http_cache, xstats, pc, tmp, cur>>

\* The verdict goes back to the host, which acts on it.
Deliver ==
    /\ ~Idle
    /\ last' = NoInv
    /\ UNCHANGED <<endian, route_map, http_cache, xstats, tstats, pc, tmp, cur, incs>>

---------------------------------------------------------------------------
(* The control plane, which writes the two tables *)

RouteKey(n, d) == [prefix_len |-> n, data |-> d]

\* 10.0.0.1:80 (48 bits), 10.0.0.1 (32 bits), 10.0.0.0/30 (30 bits), and
\* 10.0.0.1:8080 with protocol TCP (56 bits)
KeyHostPort == RouteKey(48, AddrOne \o <<0, 80, 0, 0>>)

KeyHost == RouteKey(32, AddrOne \o <<0, 0, 0, 0>>)

KeyNet == RouteKey(30, <<10, 0, 0, 0, 0, 0, 0, 0>>)

KeyHostPortProto == RouteKey(56, AddrOne \o <<31, 144, IPPROTO_TCP, 0>>)

\* The entries the control plane may write: key and action
RouteWrites ==
    {<<KeyHostPort, 1>>, <<KeyHost, 2>>, <<KeyNet, 0>>, <<KeyNet, 3>>, <<KeyHostPortProto, 1>>}

\* The writes of the specification of the two hooks together
RouteWritesBoth == {<<KeyHostPort, 1>>}

Extend(f, k, v) == [x \in DOMAIN f \cup {k} |-> IF x = k THEN v ELSE f[x]]

Remove(f, k) == [x \in DOMAIN f \ {k} |-> f[x]]

\* bpf_map_update_elem(&route_map, k, {action})
RouteUpdate(k, action) ==
    /\ Idle
    /\ IF k \in DOMAIN route_map THEN route_map[k].action # action ELSE TRUE
    /\ route_map' = Extend(route_map, k, [action |-> action])
    /\ UNCHANGED <<endian, http_cache, xstats, tstats, last, pc, tmp, cur, incs>>

\* bpf_map_delete_elem(&route_map, k)
RouteDelete(k) ==
    /\ Idle
    /\ k \in DOMAIN route_map
    /\ route_map' = Remove(route_map, k)
    /\ UNCHANGED <<endian, http_cache, xstats, tstats, last, pc, tmp, cur, incs>>

\* struct cache_key of a GET request for url on port
CacheKey(url, port) ==
    [hash |-> fnv1a_hash(url, 0, Len(url)), method |-> 1, port |-> port, padding |-> 0]

\* The keys an external writer stores: GET /a on port 80, GET /a on 8080
CacheKeys == {CacheKey(TailAEnd, 80), CacheKey(TailAEnd, 8080)}

CacheKeysBoth == {CacheKey(TailAEnd, 80)}

\* 60 s - 1 ns, 60 s + 1 ns, and 1 ns
TtlLess1 == <<255, 87, 71, 248, 13, 0, 0, 0>>

TtlPlus1 == <<1, 88, 71, 248, 13, 0, 0, 0>>

One64 == <<1, 0, 0, 0, 0, 0, 0, 0>>

\* Write timestamps, and the times the hook reads the clock at
Stamps == {Zero64, One64}

Nows == {Zero64, TtlLess1, CACHE_TTL_NS, TtlPlus1}

\* An external writer stores an entry written at time ts under key k.
CacheWrite(k, ts) ==
    /\ Idle
    /\ IF k \in DOMAIN http_cache THEN http_cache[k].timestamp # ts ELSE TRUE
    /\ http_cache' = Extend(http_cache, k, [timestamp |-> ts])
    /\ UNCHANGED <<endian, route_map, xstats, tstats, last, pc, tmp, cur, incs>>

\* The store evicts (or the writer deletes) the entry under key k.
CacheEvict(k) ==
    /\ Idle
    /\ k \in DOMAIN http_cache
    /\ http_cache' = Remove(http_cache, k)
    /\ UNCHANGED <<endian, route_map, xstats, tstats, last, pc, tmp, cur, incs>>

---------------------------------------------------------------------------
(* Specifications *)

\* The two hooks together, with the control plane
Next ==
    \/ \E u \in CPUs, p \in BothPkts : XdpInvoke(u, p)
    \/ \E u \in CPUs, p \in BothPkts, now \in Nows : TcInvoke(u, p, now)
    \/ Deliver
    \/ \E w \in RouteWritesBoth : RouteUpdate(w[1], w[2])
    \/ \E w \in RouteWritesBoth : RouteDelete(w[1])
    \/ \E k \in CacheKeysBoth, ts \in Stamps : CacheWrite(k, ts)
    \/ \E k \in CacheKeysBoth : CacheEvict(k)

Spec == Init /\ [][Next]_vars

\* The units the receive hook runs on in the specification of the hook
\* alone: the first and the last
XdpUnits == {1, NCPU}

\* The receive hook and its route table
NextXdp ==
    \/ \E u \in XdpUnits, p \in XdpPkts : XdpInvoke(u, p)
    \/ Deliver
    \/ \E w \in RouteWrites : RouteUpdate(w[1], w[2])
    \/ \E w \in RouteWrites : RouteDelete(w[1])

SpecXdp == Init /\ [][NextXdp]_vars

\* The transmit hook and its cache
NextTc ==
    \/ \E u \in CPUs, p \in TcPkts, now \in Nows : TcInvoke(u, p, now)
    \/ Deliver
    \/ \E k \in CacheKeys, ts \in Stamps : CacheWrite(k, ts)
    \/ \E k \in CacheKeys : CacheEvict(k)

SpecTc == Init /\ [][NextTc]_vars

---------------------------------------------------------------------------
(* One packet, each hook once: the offsets a hook reads *)

InitBounds ==
    /\ endian \in Endians
    /\ route_map = EmptyMap
    /\ http_cache = EmptyMap
    /\ xstats = [u \in CPUs |-> ZeroStats]
    /\ tstats = [u \in CPUs |-> ZeroSlots]
    /\ \E p \in GeometryPkts(GetTokens) : last = [hook |-> "arrived", mem |-> p.mem, data_end |-> p.data_end]
    /\ pc = [u \in CPUs |-> "idle"]
    /\ tmp = [u \in CPUs |-> 0]
    /\ cur = [u \in CPUs |-> NoInv]
    /\ incs = [u \in CPUs |-> ZeroIncs]

\* The receive hook runs on the packet that arrived.
XdpArrived(u) ==
    /\ last.hook = "arrived"
    /\ \E out \in xdp_outcomes(last.mem, last.data_end, route_map, endian) :
       LET s == this_cpu(u)
       IN  /\ xstats' = [xstats EXCEPT
                  ![s].packets_total = @ + out.total,
                  ![s].packets_passed = @ + out.passed,
                  ![s].packets_dropped = @ + out.dropped]
           /\ last' = [hook |-> "xdp", cpu |-> u, mem |-> last.mem, data_end |-> last.data_end,
                       now |-> Zero64, out |-> out, pre |-> Snapshot]
    /\ incs' = [incs EXCEPT ![u].xinv = @ + 1]
    /\ UNCHANGED <<endian, route_map, http_cache, tstats, pc, tmp, cur>>

\* The transmit hook runs on the packet that arrived.
TcArrived(u) ==
    /\ last.hook = "arrived"
    /\ LET out == tc_http_cache(last.mem, last.data_end, http_cache, Zero64, endian)
           s == this_cpu(u)
       IN  /\ tstats' = [tstats EXCEPT
                  ![s][0] = @ + out.total,
                  ![s][1] = @ + out.hits]
           /\ last' = [hook |-> "tc", cpu |-> u, mem |-> last.mem, data_end |-> last.data_end,
                       now |-> Zero64, out |-> out, pre |-> Snapshot]
    /\ incs' = [incs EXCEPT ![u].tinv = @ + 1]
    /\ UNCHANGED <<endian, route_map, http_cache, xstats, pc, tmp, cur>>

NextBounds ==
    \/ \E u \in {1} : XdpArrived(u)
    \/ \E u \in {1} : TcArrived(u)

SpecBounds == InitBounds /\ [][NextBounds]_vars

---------------------------------------------------------------------------
(* Invocations on several units at once.  Every unit runs its invocation  *)
(* to completion; the steps of different units interleave.  An increment  *)
(* of a counter (x++) is a load of the counter and a store of the loaded  *)
(* value plus one.                                                        *)

\* The tables the control plane has written before the packets arrive
ConcRoutes == Extend(EmptyMap, KeyHostPort, [action |-> 1])

ConcCache == Extend(EmptyMap, CacheKey(TailAEnd, 80), [timestamp |-> Zero64])

\* The packets of the receive hook (a drop, a miss, a bypass) and of the
\* transmit hook (GET /a in both byte orders of the token, a bypass)
ConcXdpPkts ==
    {Whole(PlainFields), Whole([PlainFields EXCEPT !.dport = 8080]),
     Whole([PlainFields EXCEPT !.ethertype = 34525])}

ConcTcPkts ==
    {Whole([PlainFields EXCEPT !.payload = t \o TailA]) : t \in GetTokens}
    \cup {Whole([PlainFields EXCEPT !.ethertype = 34525])}

InitConc ==
    /\ endian \in Endians
    /\ route_map = ConcRoutes
    /\ http_cache = ConcCache
    /\ xstats = [u \in CPUs |-> ZeroStats]
    /\ tstats = [u \in CPUs |-> ZeroSlots]
    /\ last = NoInv
    /\ pc = [u \in CPUs |-> "idle"]
    /\ tmp = [u \in CPUs |-> 0]
    /\ cur = [u \in CPUs |-> NoInv]
    /\ incs = [u \in CPUs |-> ZeroIncs]

Step(u) == [hook |-> "step", cpu |-> u, pre |-> Snapshot]

\* The counter the unit's invocation is about to increment.
CounterOf(u) ==
    IF pc[u] \in {"load_total", "store_total"} THEN "total" ELSE cur[u].second

\* The value of counter c of hook h in the copy that unit u's lookup returns.
ReadCounter(h, c, u) ==
    LET s == this_cpu(u)
    IN  CASE h = "xdp" /\ c = "total" -> xstats[s].packets_total
          [] h = "xdp" /\ c = "passed" -> xstats[s].packets_passed
          [] h = "xdp" /\ c = "dropped" -> xstats[s].packets_dropped
          [] h = "tc" /\ c = "total" -> tstats[s][0]
          [] h = "tc" /\ c = "hits" -> tstats[s][1]

\* The hook starts on unit u for packet p.
ConcArrive(u, h, p) ==
    /\ pc[u] = "idle"
    /\ Invocations < MaxInv
    /\ cur' = [cur EXCEPT ![u] = [hook |-> h, mem |-> p.mem, data_end |-> p.data_end, second |-> "none"]]
    /\ pc' = [pc EXCEPT ![u] = "load_total"]
    /\ incs' = [incs EXCEPT ![u].xinv = @ + (IF h = "xdp" THEN 1 ELSE 0),
                            ![u].tinv = @ + (IF h = "tc" THEN 1 ELSE 0)]
    /\ last' = Step(u)
    /\ UNCHANGED <<endian, route_map, http_cache, xstats, tstats, tmp>>

\* The load of x++
ConcLoad(u) ==
    /\ pc[u] \in {"load_total", "load_second"}
    /\ tmp' = [tmp EXCEPT ![u] = ReadCounter(cur[u].hook, CounterOf(u), u)]
    /\ pc' = [pc EXCEPT ![u] = IF pc[u] = "load_total" THEN "store_total" ELSE "store_second"]
    /\ last' = Step(u)
    /\ UNCHANGED <<endian, route_map, http_cache, xstats, tstats, cur, incs>>

\* The store of x++
ConcStore(u) ==
    /\ pc[u] \in {"store_total", "store_second"}
    /\ LET s == this_cpu(u)
           h == cur[u].hook
           c == CounterOf(u)
       IN  /\ xstats' =
                 CASE h = "xdp" /\ c = "total" -> [xstats EXCEPT ![s].packets_total = tmp[u] + 1]
                   [] h = "xdp" /\ c = "passed" -> [xstats EXCEPT ![s].packets_passed = tmp[u] + 1]
                   [] h = "xdp" /\ c = "dropped" -> [xstats EXCEPT ![s].packets_dropped = tmp[u] + 1]
                   [] OTHER -> xstats
           /\ tstats' =
                 CASE h = "tc" /\ c = "total" -> [tstats EXCEPT ![s][0] = tmp[u] + 1]
                   [] h = "tc" /\ c = "hits" -> [tstats EXCEPT ![s][1] = tmp[u] + 1]
                   [] OTHER -> tstats
           /\ incs' =
                 CASE h = "xdp" /\ c = "total" -> [incs EXCEPT ![u].xtotal = @ + 1]
                   [] h = "xdp" /\ c = "passed" -> [incs EXCEPT ![u].xpassed = @ + 1]
                   [] h = "xdp" /\ c = "dropped" -> [incs EXCEPT ![u].xdropped = @ + 1]
                   [] h = "tc" /\ c = "total" -> [incs EXCEPT ![u].ttotal = @ + 1]
                   [] h = "tc" /\ c = "hits" -> [incs EXCEPT ![u].thits = @ + 1]
    /\ pc' = [pc EXCEPT ![u] = IF pc[u] = "store_total" THEN "run" ELSE "idle"]
    /\ cur' = [cur EXCEPT ![u] = IF pc[u] = "store_total" THEN @ ELSE NoInv]
    /\ tmp' = [tmp EXCEPT ![u] = 0]
    /\ last' = Step(u)
    /\ UNCHANGED <<endian, route_map, http_cache>>

\* The rest of the program after packets_total++: the header walk, the
\* lookup and the choice of the counter to increment next, if any.
ConcRun(u) ==
    /\ pc[u] = "run"
    /\ \E out \in IF cur[u].hook = "xdp"
                  THEN xdp_outcomes(cur[u].mem, cur[u].data_end, route_map, endian)
                  ELSE {tc_http_cache(cur[u].mem, cur[u].data_end, http_cache, Zero64, endian)} :
       LET second == IF cur[u].hook = "xdp"
                     THEN (IF out.dropped = 1 THEN "dropped"
                           ELSE IF out.passed = 1 THEN "passed" ELSE "none")
                     ELSE (IF out.hits = 1 THEN "hits" ELSE "none")
       IN  /\ cur' = [cur EXCEPT ![u] = IF second = "none" THEN NoInv ELSE [@ EXCEPT !.second = second]]
           /\ pc' = [pc EXCEPT ![u] = IF second = "none" THEN "idle" ELSE "load_second"]
    /\ last' = Step(u)
    /\ UNCHANGED <<endian, route_map, http_cache, xstats, tstats, tmp, incs>>

NextConc ==
    \/ \E u \in CPUs, p \in ConcXdpPkts : ConcArrive(u, "xdp", p)
    \/ \E u \in CPUs, p \in ConcTcPkts : ConcArrive(u, "tc", p)
    \/ \E u \in CPUs : ConcLoad(u)
    \/ \E u \in CPUs : ConcStore(u)
    \/ \E u \in CPUs : ConcRun(u)

SpecConc == InitConc /\ [][NextConc]_vars

---------------------------------------------------------------------------
(* The packet of the last invocation, as its bytes lie on the wire, and    *)
(* what the invocation did to the counters of the unit it ran on.          *)

IsXdp == last.hook = "xdp"

IsTc == last.hook = "tc"

Ran == IsXdp \/ IsTc

WireType == Byte(last.mem, 12) * 256 + Byte(last.mem, 13)

WireVersion == Byte(last.mem, ETH_HLEN) \div 16

WireProto == Byte(last.mem, ETH_HLEN + 9)

WireTcp == ETH_HLEN + (Byte(last.mem, ETH_HLEN) % 16) * 4

WireDport == Byte(last.mem, WireTcp + 2) * 256 + Byte(last.mem, WireTcp + 3)

WirePay == WireTcp + (Byte(last.mem, WireTcp + 12) \div 16) * 4

WireToken == [i \in 1..4 |-> Byte(last.mem, WirePay + i - 1)]

\* Destination address, destination port and protocol of the packet, and a
\* zero byte to fill the eight bytes of a stored key's data
WireRouteData ==
    [i \in 1..8 |-> IF i <= 4 THEN Byte(last.mem, ETH_HLEN + 15 + i)
                    ELSE IF i <= 6 THEN Byte(last.mem, WireTcp + i - 3)
                    ELSE IF i = 7 THEN WireProto ELSE 0]

\* The leading bits of byte i (1..8) of a key that a prefix of n bits holds
LeadBits(b, i, n) ==
    IF n >= 8 * i THEN b
    ELSE IF n <= 8 * (i - 1) THEN 0
    ELSE b \div Pow2(8 * i - n)

\* The stored key k covers the packet: the packet's bits start with k's prefix.
Covers(k) ==
    LET w == WireRouteData
    IN  \A i \in 1..8 : LeadBits(k.data[i], i, k.prefix_len) = LeadBits(w[i], i, k.prefix_len)

\* The buffer holds complete Ethernet, IP and TCP headers.
HeadersFit ==
    /\ last.data_end >= ETH_HLEN + IPHDR_SIZE
    /\ WireTcp + TCPHDR_SIZE <= last.data_end

\* A fully parsed IPv4/TCP packet
FullyParsed ==
    /\ HeadersFit
    /\ WireType = ETH_P_IP
    /\ WireVersion = 4
    /\ WireProto = IPPROTO_TCP

XdpPre == last.pre.xstats[last.cpu]

XdpNow == xstats[last.cpu]

TcPre == last.pre.tstats[last.cpu]

TcNow == tstats[last.cpu]

PassVerdict == IF IsXdp THEN XDP_PASS ELSE TC_ACT_OK

\* No counter but the totals differs from its value before the invocation.
OnlyTotalsChanged ==
    /\ \A u \in CPUs :
          /\ xstats[u].packets_passed = last.pre.xstats[u].packets_passed
          /\ xstats[u].packets_dropped = last.pre.xstats[u].packets_dropped
          /\ xstats[u].cache_hits = last.pre.xstats[u].cache_hits
          /\ \A k \in 1..3 : tstats[u][k] = last.pre.tstats[u][k]

TablesUnchanged ==
    /\ route_map = last.pre.route_map
    /\ http_cache = last.pre.http_cache

---------------------------------------------------------------------------
(* C1 *)

\* The offsets of the Ethernet type, of the IP header's first byte and of
\* its protocol byte
EthFields == {12, 13}

IpFields == {ETH_HLEN, ETH_HLEN + 9}

\* C1: bounds safety in both hooks.  For every buffer length and every IHL
\* and data offset, every offset a hook read lies below data_end; and when
\* the Ethernet header, the IP header, the TCP header or the method token
\* does not fit in the buffer, the hook read nothing of it and returned
\* pass-through without a lookup.
BoundsSafe ==
    Ran =>
        LET n == last.data_end
            reads == last.out.reads
            bypassed == last.out.verdict = PassVerdict /\ ~last.out.looked
        IN  /\ \A o \in reads : 0 <= o /\ o < n
            /\ n < ETH_HLEN => reads = {} /\ bypassed
            /\ n < ETH_HLEN + IPHDR_SIZE => reads \subseteq EthFields /\ bypassed
            /\ WireTcp + TCPHDR_SIZE > n =>
                  reads \subseteq (EthFields \cup IpFields) /\ bypassed
            /\ (IsTc /\ WirePay + 4 > n) =>
                  /\ reads \subseteq (EthFields \cup IpFields
                                        \cup {WireTcp + 2, WireTcp + 3, WireTcp + 12})
                  /\ bypassed

\* The transmit hook looked the cache up for a frame with IHL 15 and data
\* offset 15 whose URL runs up to the end of the buffer.
BoundsSafeWitness ==
    /\ IsTc
    /\ last.out.looked
    /\ WireTcp = ETH_HLEN + 60
    /\ WirePay = WireTcp + 60
    /\ last.out.url_len > 0
    /\ last.out.url_start + last.out.url_len = last.data_end
    /\ (last.data_end - 1) \in last.out.reads

---------------------------------------------------------------------------
(* C3 *)

\* C3: route miss in the receive hook.  For a fully parsed IPv4/TCP packet
\* that no entry of the route table covers, the verdict is XDP_PASS,
\* packets_passed of the executing unit grew by exactly one and
\* packets_dropped did not change.
RouteMissPasses ==
    (IsXdp /\ FullyParsed /\ \A k \in DOMAIN last.pre.route_map : ~Covers(k)) =>
        /\ last.out.verdict = XDP_PASS
        /\ XdpNow.packets_passed = XdpPre.packets_passed + 1
        /\ XdpNow.packets_dropped = XdpPre.packets_dropped

\* The table holds routes, the hook looked it up for a fully parsed packet,
\* and none of the routes covers the packet.
RouteMissWitness ==
    /\ IsXdp
    /\ FullyParsed
    /\ last.out.looked
    /\ Cardinality(DOMAIN last.pre.route_map) >= 2
    /\ \A k \in DOMAIN last.pre.route_map : ~Covers(k)

---------------------------------------------------------------------------
(* C2 *)

\* The entries a lookup for the packet can return, the one it returns and
\* the action stored there
WireMatches ==
    {k \in DOMAIN last.pre.route_map : k.prefix_len <= ROUTE_PREFIX_LEN /\ Covers(k)}

WireBest ==
    LET m == WireMatches
    IN  CHOOSE k \in m : \A j \in m : j.prefix_len <= k.prefix_len

StoredAction == last.pre.route_map[WireBest].action

RouteHit == IsXdp /\ FullyParsed /\ WireMatches # {}

\* C2 as stated: on a route hit exactly one action counter is incremented,
\* the stored action's own, and that action's verdict is returned; for the
\* redirect action this leaves the counters of the pass and drop actions
\* (packets_passed, packets_dropped) alone.
RouteHitOwnCounter ==
    RouteHit =>
        LET a == StoredAction IN
        CASE a = 1 ->
                 /\ last.out.verdict = XDP_DROP
                 /\ XdpNow.packets_dropped = XdpPre.packets_dropped + 1
                 /\ XdpNow.packets_passed = XdpPre.packets_passed
          [] a = 2 ->
                 /\ last.out.verdict = XDP_TX
                 /\ XdpNow.packets_dropped = XdpPre.packets_dropped
                 /\ XdpNow.packets_passed = XdpPre.packets_passed
          [] OTHER ->
                 /\ last.out.verdict = XDP_PASS
                 /\ XdpNow.packets_passed = XdpPre.packets_passed + 1
                 /\ XdpNow.packets_dropped = XdpPre.packets_dropped

\* C2 (amended): on a route hit exactly one of packets_passed and
\* packets_dropped is incremented, once: action drop (1) increments
\* packets_dropped and returns XDP_DROP; action redirect (2) returns XDP_TX
\* and increments packets_passed; every other action increments
\* packets_passed and returns XDP_PASS.  cache_hits does not change.
RouteHitCounted ==
    RouteHit =>
        /\ last.out.looked
        /\ XdpNow.cache_hits = XdpPre.cache_hits
        /\ XdpNow.packets_total = XdpPre.packets_total + 1
        /\ LET a == StoredAction IN
           CASE a = 1 ->
                 /\ last.out.verdict = XDP_DROP
                 /\ XdpNow.packets_dropped = XdpPre.packets_dropped + 1
                 /\ XdpNow.packets_passed = XdpPre.packets_passed
             [] a = 2 ->
                 /\ last.out.verdict = XDP_TX
                 /\ XdpNow.packets_dropped = XdpPre.packets_dropped
                 /\ XdpNow.packets_passed = XdpPre.packets_passed + 1
             [] OTHER ->
                 /\ last.out.verdict = XDP_PASS
                 /\ XdpNow.packets_passed = XdpPre.packets_passed + 1
                 /\ XdpNow.packets_dropped = XdpPre.packets_dropped

\* A hit on a redirect entry, shadowing a shorter entry that covers the
\* packet too
RouteHitWitness ==
    /\ RouteHit
    /\ StoredAction = 2
    /\ Cardinality(WireMatches) >= 2
    /\ last.out.verdict = XDP_TX

---------------------------------------------------------------------------
(* C4 *)

\* C4: the total counter.  Every invocation of either hook adds exactly one
\* to the executing unit's total, whatever the packet; so each unit's total
\* is the number of invocations it ran, it bounds the unit's other counters
\* (packets_total >= packets_passed + packets_dropped, total >= hits), and
\* no counter is below its value before the invocation.
TotalCounts ==
    /\ \A u \in CPUs :
          /\ xstats[u].packets_total = incs[u].xinv
          /\ tstats[u][0] = incs[u].tinv
          /\ xstats[u].packets_total >= xstats[u].packets_passed + xstats[u].packets_dropped
          /\ tstats[u][0] >= tstats[u][1]
    /\ IsXdp => XdpNow.packets_total = XdpPre.packets_total + 1
    /\ IsTc => TcNow[0] = TcPre[0] + 1
    /\ Ran => \A u \in CPUs :
          /\ xstats[u].packets_total >= last.pre.xstats[u].packets_total
          /\ xstats[u].packets_passed >= last.pre.xstats[u].packets_passed
          /\ xstats[u].packets_dropped >= last.pre.xstats[u].packets_dropped
          /\ xstats[u].cache_hits >= last.pre.xstats[u].cache_hits
          /\ \A k \in 0..3 : tstats[u][k] >= last.pre.tstats[u][k]

\* The second invocation of the transmit hook on a unit, for a buffer too
\* short for an Ethernet header: parsing failed and the total is 2.
TotalCountsWitness ==
    /\ IsTc
    /\ last.data_end < ETH_HLEN
    /\ last.out.reads = {}
    /\ TcNow[0] = 2
    /\ TcNow[1] = 0

---------------------------------------------------------------------------
(* C8 *)

AllowedPorts == {80, 8080, 3000}

\* The packet is truncated before a complete Ethernet, IP or TCP header, or
\* its link-layer type is not IPv4, or its protocol is not TCP, or (transmit
\* hook) its destination port is not an allowed one.
BypassCase ==
    \/ last.data_end < ETH_HLEN
    \/ WireType # ETH_P_IP
    \/ last.data_end < ETH_HLEN + IPHDR_SIZE
    \/ WireProto # IPPROTO_TCP
    \/ WireTcp + TCPHDR_SIZE > last.data_end
    \/ IsTc /\ WireDport \notin AllowedPorts

\* C8: one bypass policy in both hooks.  Such a packet gets the
\* pass-through verdict, causes no route or cache lookup, changes no counter
\* other than total, and leaves the route table and the cache unchanged.
SingleBypassPolicy ==
    (Ran /\ BypassCase) =>
        /\ last.out.verdict = PassVerdict
        /\ ~last.out.looked
        /\ OnlyTotalsChanged
        /\ TablesUnchanged

\* The transmit hook bypassed a complete IPv4/TCP packet to port 443 while
\* the cache and the route table held entries.
SingleBypassWitness ==
    /\ IsTc
    /\ FullyParsed
    /\ WireDport = 443
    /\ last.data_end >= WirePay + 4
    /\ DOMAIN http_cache # {}
    /\ DOMAIN route_map # {}

---------------------------------------------------------------------------
(* C9 *)

\* C9: IP version validation in both hooks.  A frame with the IPv4
\* link-layer type whose IP version field is not 4 stops at the
\* network-layer step in either hook: no route or cache lookup, and no
\* change of a passed, dropped or cache-hit counter.
VersionValidated ==
    (Ran /\ last.data_end >= ETH_HLEN + IPHDR_SIZE
         /\ WireType = ETH_P_IP /\ WireVersion # 4) =>
        /\ ~last.out.looked
        /\ OnlyTotalsChanged

---------------------------------------------------------------------------
(* C6, C7, C5: the request as it lies on the wire *)

\* A fully parsed IPv4/TCP packet to an allowed port, in the transmit hook
TcRequest == IsTc /\ FullyParsed /\ WireDport \in AllowedPorts

TokenFits == WirePay + 4 <= last.data_end

\* The payload begins with 'G','E','T',' ' resp. 'P','O','S','T'.
WireGet == TokenFits /\ WireToken = TokGet

WirePost == TokenFits /\ WireToken = TokPost

WireUrlStart == WirePay + 4

\* The URL's length: the bytes from WireUrlStart up to the first space, CR
\* or LF, the end of the buffer, or MAX_URL_LEN bytes, whichever is first.
WireUrlEnds ==
    {i \in 0..MAX_URL_LEN :
        \/ i = MAX_URL_LEN
        \/ WireUrlStart + i >= last.data_end
        \/ Byte(last.mem, WireUrlStart + i) \in {32, 13, 10}}

WireUrlLen == CHOOSE i \in WireUrlEnds : \A j \in WireUrlEnds : i <= j

WireUrl == [i \in 1..WireUrlLen |-> Byte(last.mem, WireUrlStart + i - 1)]

\* The cache key of the GET request for that URL
WireKey == CacheKey(WireUrl, WireDport)

TcHitsGrew == TcNow[1] = TcPre[1] + 1

\* C6: method classification.  A request whose payload begins with the wire
\* bytes "GET " is classified GET and goes on to URL extraction and (with a
\* non-empty URL) the cache lookup; one that begins with "POST" is
\* classified POST; POST, any other token, and a token that does not fit in
\* the buffer cause no cache lookup.
MethodByWireBytes ==
    TcRequest =>
        /\ WireGet =>
              /\ last.out.method = 1
              /\ last.out.url_start = WireUrlStart
              /\ (WireUrlLen > 0) => last.out.looked
        /\ WirePost => last.out.method = 2
        /\ ~WireGet => ~last.out.looked

\* C7: URL extraction.  For a GET request the extracted URL is the bytes
\* from 4 bytes after the payload start up to the first space, CR or LF,
\* the end of the buffer, or 192 bytes; an empty URL causes no cache lookup
\* and no counter change beyond total, a non-empty one is looked up under
\* the key of exactly those bytes.
UrlExtracted ==
    (TcRequest /\ WireGet) =>
        /\ last.out.url_start = WireUrlStart
        /\ last.out.url_len = WireUrlLen
        /\ (WireUrlLen = 0) => (~last.out.looked /\ OnlyTotalsChanged)
        /\ (WireUrlLen > 0) => (last.out.looked /\ last.out.key = WireKey)

\* C5: cache freshness.  For a GET request whose key is in the cache with
\* write timestamp T, cache hits grow by exactly one iff now - T < 60 s on
\* unsigned 64-bit values; otherwise no counter but total changes; the entry
\* is neither removed nor refreshed.
FreshIffHit ==
    (TcRequest /\ WireGet /\ WireUrlLen > 0 /\ WireKey \in DOMAIN last.pre.http_cache) =>
        LET age == Sub64(last.now, last.pre.http_cache[WireKey].timestamp)
        IN  /\ Lt64(age, CACHE_TTL_NS) => TcHitsGrew
            /\ ~Lt64(age, CACHE_TTL_NS) => OnlyTotalsChanged
            /\ TablesUnchanged

---------------------------------------------------------------------------
(* C10 *)

Sum(field) == SumOver([u \in CPUs |-> incs[u][field]], CPUs)

\* C10: partitioned counters under concurrency.  In every interleaving of
\* the units' steps (an increment being a load and a later store), a step of
\* unit u changes no other unit's counters, every counter of a unit holds
\* the number of increments the unit executed on it (none is lost), and the
\* totals summed over the units are the increments of the total executed.
PartitionedCounters ==
    /\ last.hook = "step" =>
          \A v \in CPUs \ {last.cpu} :
              xstats[v] = last.pre.xstats[v] /\ tstats[v] = last.pre.tstats[v]
    /\ \A u \in CPUs :
          /\ xstats[u].packets_total = incs[u].xtotal
          /\ xstats[u].packets_passed = incs[u].xpassed
          /\ xstats[u].packets_dropped = incs[u].xdropped
          /\ tstats[u][0] = incs[u].ttotal
          /\ tstats[u][1] = incs[u].thits
    /\ SumOver([u \in CPUs |-> xstats[u].packets_total], CPUs) = Sum("xtotal")
    /\ SumOver([u \in CPUs |-> tstats[u][0]], CPUs) = Sum("ttotal")

\* Two units run the receive hook at once: both have loaded packets_total
\* and neither has stored it yet.
PartitionedWitness ==
    /\ pc[1] = "store_total"
    /\ pc[2] = "store_total"
    /\ cur[1].hook = "xdp"
    /\ cur[2].hook = "xdp"
    /\ tmp[1] = tmp[2]

=============================================================================
